---- MODULE Spec2Model ----
(***************************************************************************)
(* A model of the yahoo-notification-tool Lambda functions.                *)
(*                                                                         *)
(*   variant 1  = src/lambda_fuction_1.py : rows config.iloc[::2],         *)
(*                ledger in a DynamoDB table, global exclusion list        *)
(*   variant 2  = src/lambda_fuction_2.py : rows config.iloc[1::2],        *)
(*                ledger in one S3 object (notifiedlist.csv)               *)
(*                                                                         *)
(* Python strings are sequences of one-character strings, so that strip,   *)
(* lower, split and the substring test are computed as Python computes     *)
(* them.                                                                   *)
(***************************************************************************)
EXTENDS Integers, Sequences, FiniteSets, TLC

(***************************************************************************)
(* Bounds of the model.                                                    *)
(***************************************************************************)
\* rows of config.csv (both partitions together)
MaxRows == 4
\* BATCH_SIZE is drawn from 1 .. MaxBatchSize
MaxBatchSize == 2
\* hits in one search response
MaxHits == 2
\* successful notifications counted per URL (the counter saturates here)
MaxSends == 2
\* runs the schedule starts
MaxRuns == 2
\* the configurations start at offsets 0 .. MaxOffset of the rule catalog
MaxOffset == 2
\* rows of config.csv and BATCH_SIZE where only the batch arithmetic runs
BatchMaxRows == 9
BatchMaxSize == 3

(***************************************************************************)
(* Strings.                                                                *)
(***************************************************************************)
Range(s) == {s[i] : i \in DOMAIN s}

SetMin(S) == CHOOSE x \in S : \A y \in S : x <= y
SetMax(S) == CHOOSE x \in S : \A y \in S : x >= y

\* str.lower(), character by character
LowerChar(c) ==
    CASE c = "A" -> "a"
      [] c = "B" -> "b"
      [] c = "S" -> "s"
      [] OTHER -> c

Lower(s) == [i \in DOMAIN s |-> LowerChar(s[i])]

\* str.strip(chars): drop the leading and trailing characters that are in chars
StripChars(s, chars) ==
    LET keep == {i \in DOMAIN s : s[i] \notin chars}
    IN  IF keep = {} THEN << >> ELSE SubSeq(s, SetMin(keep), SetMax(keep))

\* str.strip()
Strip(s) == StripChars(s, {" "})

\* sub in s
Contains(sub, s) ==
    \E i \in 0 .. (Len(s) - Len(sub)) : SubSeq(s, i + 1, i + Len(sub)) = sub

\* str.split(sep) with an explicit one-character separator: empty tokens are kept
RECURSIVE Split(_, _)
Split(s, sep) ==
    LET at == {i \in DOMAIN s : s[i] = sep}
    IN  IF at = {} THEN << s >>
        ELSE LET i == SetMin(at)
             IN  << SubSeq(s, 1, i - 1) >> \o Split(SubSeq(s, i + 1, Len(s)), sep)

\* str.split(): runs of whitespace separate, no empty token
SplitWhitespace(s) == SelectSeq(Split(s, " "), LAMBDA w : w # << >>)

\* [f(x) for x in seq]
MapSeq(seq, F(_)) == [i \in DOMAIN seq |-> F(seq[i])]

\* pandas' missing value; pd.notna(x) is x # NaN and str(NaN) is 'nan'
NaN == << "NaN" >>
StrNan == << "n", "a", "n" >>
Str(x) == IF x = NaN THEN StrNan ELSE x

(***************************************************************************)
(* Inputs: rows of config.csv, search hits, HTTP answers.                  *)
(***************************************************************************)
Variants == {1, 2}

\* item URLs, the keys of the ledger
URLs == {"u1", "u2"}

\* a key that a dict does not hold
Missing == << "Missing" >>
\* an item dict without the key 'url'
NoUrl == "no_url"

\* The condition tag for "new, unused" is the one character "N" of a condition
\* string; the two-character marker for "used" (chuko) is "c", "k" in an item
\* name; the two-character default shop name ("unknown") is "f", "m".
NewTag == << "N" >>
UsedMarker == << "c", "k" >>
UnknownShop == << "f", "m" >>

\* The rows the configurations are built from. lowest_price, highest_price and
\* name only travel into the search request and the message text.
RuleCatalog == <<
    \* 'ab s', no ng_keyword, no sellerIdExs, 'N|o'
    [product_keyword |-> << "a", "b", " ", "s" >>, ng_keyword |-> NaN,
     sellerIdExs |-> NaN, product_condition |-> << "N", "|", "o" >>],
    \* 'AB', ng 'S', sellerIdExs '"SA , sc"', ' N'
    [product_keyword |-> << "A", "B" >>, ng_keyword |-> << "S" >>,
     sellerIdExs |-> << "\"", "S", "A", " ", ",", " ", "s", "c", "\"" >>,
     product_condition |-> << " ", "N" >>],
    \* 'a b': single-character words only
    [product_keyword |-> << "a", " ", "b" >>, ng_keyword |-> NaN,
     sellerIdExs |-> NaN, product_condition |-> << "N" >>],
    \* 'ab', condition 'o' (no N tag)
    [product_keyword |-> << "a", "b" >>, ng_keyword |-> NaN,
     sellerIdExs |-> NaN, product_condition |-> << "o" >>],
    \* ' ': empty after strip()
    [product_keyword |-> << " " >>, ng_keyword |-> << "s" >>,
     sellerIdExs |-> << "s", "b" >>, product_condition |-> << "N" >>]
>>

\* config.csv: n rows, taken from the catalog in rotation from an offset
Configs ==
    { [i \in 1 .. n |-> RuleCatalog[((i - 1 + off) % Len(RuleCatalog)) + 1]] :
        n \in 0 .. MaxRows, off \in 0 .. MaxOffset }

ItemNames ==
    { << "a", "b" >>, << "A", "B", "c", "k" >>, << "a", "B", "s" >>,
      << "b", "s" >>, Missing }
SellerNames == { << " ", "S", "A", " " >>, << "s", "b" >>, Missing }
\* '1000' (int() accepts it), '12.5' (ValueError), None (TypeError)
Prices == { "1000", "12.5", "None" }

\* one element of the 'hits' array of a search answer
Items ==
    [name : ItemNames, url : URLs \cup {NoUrl}, price : Prices,
     seller : SellerNames]

\* column A of the sheet of excluded shops from row 2, one cell per row
SheetValues ==
    { << >>, << << " ", "S", "B" >> >>,
      << << " " >>, << "s", "b" >>, << >>, << "S", "A" >> >> }

(***************************************************************************)
(* Pure functions of the two source files.                                 *)
(***************************************************************************)
\* is_single_character(word)
is_single_character(word) == Len(word) = 1

\* sellerIdExs of a row -> excluded_shops, a list of lowercase names
excluded_shops(row) ==
    LET sellerIdExs_raw ==
            IF row.sellerIdExs # NaN THEN Strip(Str(row.sellerIdExs)) ELSE StrNan
    IN  IF Lower(sellerIdExs_raw) # StrNan
        THEN LET sellerIdExs == StripChars(sellerIdExs_raw, {"\""})
                 ShopOf(shop) == Lower(Strip(shop))
             IN  MapSeq(Split(sellerIdExs, ","), ShopOf)
        ELSE << >>

\* all_excluded_shops without the global list
all_excluded_shops_RowOnly(v, global_excluded_shops, row) ==
    Range(excluded_shops(row))

\* the set the shop name is looked up in: variant 1 unites the global list
\* with the row's list, variant 2 has the row's list alone
all_excluded_shops(v, global_excluded_shops, row) ==
    IF v = 1
    THEN Range(global_excluded_shops \o excluded_shops(row))
    ELSE Range(excluded_shops(row))

\* filtered_words of a row
filtered_words(row) ==
    LET original_keyword == Strip(Str(row.product_keyword))
        words == Split(original_keyword, " ")
    IN  SelectSeq(words, LAMBDA word : ~is_single_character(word))

\* RowPrelude that searches for a keyword of one-character words
RowPrelude_SingleSearched(row) ==
    LET original_keyword == Strip(Str(row.product_keyword))
    IN  IF original_keyword = << >> THEN "skip_empty" ELSE "search"

\* what the row loop does with a row before it searches:
\* "skip_empty", "skip_single" or "search"
RowPrelude(row) ==
    LET original_keyword == Strip(Str(row.product_keyword))
    IN  IF original_keyword = << >> THEN "skip_empty"
        ELSE IF filtered_words(row) = << >> THEN "skip_single"
        ELSE "search"

\* notify_condition of a row
notify_condition(row) ==
    LET product_condition_str == Strip(Str(row.product_condition))
        product_conditions == MapSeq(Split(product_condition_str, "|"), Strip)
    IN  IF NewTag \in Range(product_conditions)
        THEN IF Len(product_conditions) = 1 THEN "exclude_chuko" ELSE "include_all"
        ELSE "include_chuko_only"

\* shop_name of a hit
shop_name(item) ==
    Lower(Strip(IF item.seller = Missing THEN UnknownShop ELSE item.seller))

\* f"{int(item['price']):,}" with its except ValueError
FormatPrice(price) ==
    CASE price = "1000" -> "formatted"
      [] price = "12.5" -> "passthrough"
      [] OTHER -> "raise"

\* get_excluded_shops_from_sheets: the cells of column A, stripped and
\* lowercased, up to the first empty cell
RECURSIVE get_excluded_shops_from_sheets(_)
get_excluded_shops_from_sheets(values) ==
    IF values = << >> \/ Head(values) = << >> THEN << >>
    ELSE LET name == Lower(Strip(Head(values)))
             rest == get_excluded_shops_from_sheets(Tail(values))
         IN  IF name # << >> THEN << name >> \o rest ELSE rest

\* What the row loop computes from a row before it searches: the words to
\* find, the ng_keyword (<< >> when there is none), notify_condition and the
\* exclusion set.
PrepareRow(v, global_excluded_shops, row) ==
    [words |-> filtered_words(row),
     ng_keyword |-> IF row.ng_keyword # NaN THEN Strip(Str(row.ng_keyword)) ELSE << >>,
     notify_condition |-> notify_condition(row),
     excluded |-> all_excluded_shops(v, global_excluded_shops, row)]

\* MatchItem that tests the keyword before the ng_keyword
MatchItem_KeywordFirst(prep, item) ==
    LET item_name_lower == Lower(item.name)
        all_words_present ==
            \A i \in DOMAIN prep.words :
                Contains(Lower(prep.words[i]), item_name_lower)
        ng_words == SplitWhitespace(prep.ng_keyword)
        ng_hit ==
            /\ prep.ng_keyword # << >>
            /\ \E i \in DOMAIN ng_words : Contains(Lower(ng_words[i]), item_name_lower)
    IN  IF ~all_words_present THEN "KeywordMismatch"
        ELSE IF ng_hit THEN "NegativeKeywordHit"
        ELSE IF prep.notify_condition = "exclude_chuko"
                /\ Contains(UsedMarker, item.name)
             THEN "ExcludeUsed"
        ELSE IF prep.notify_condition = "include_chuko_only"
                /\ ~Contains(UsedMarker, item.name)
             THEN "UsedOnly"
        ELSE IF FormatPrice(item.price) = "raise" THEN "TypeError"
        ELSE "send"

\* The item loop after the two lookups: the keyword, ng_keyword and condition
\* tests and the formatting of the price. "TypeError" (int(item['price'])) is
\* an exception nothing catches, "send" is the call of
\* send_chatwork_notification, the other values are the branches that
\* continue with the next hit.
MatchItem(prep, item) ==
    LET item_name_lower == Lower(item.name)
        all_words_present ==
            \A i \in DOMAIN prep.words :
                Contains(Lower(prep.words[i]), item_name_lower)
        ng_words == SplitWhitespace(prep.ng_keyword)
        ng_hit ==
            /\ prep.ng_keyword # << >>
            /\ \E i \in DOMAIN ng_words : Contains(Lower(ng_words[i]), item_name_lower)
    IN  IF ng_hit THEN "NegativeKeywordHit"
        ELSE IF ~all_words_present THEN "KeywordMismatch"
        ELSE IF prep.notify_condition = "exclude_chuko"
                /\ Contains(UsedMarker, item.name)
             THEN "ExcludeUsed"
        ELSE IF prep.notify_condition = "include_chuko_only"
                /\ ~Contains(UsedMarker, item.name)
             THEN "UsedOnly"
        ELSE IF FormatPrice(item.price) = "raise" THEN "TypeError"
        ELSE "send"

\* EvaluateItem without the lookup in notified_set
EvaluateItem_NoLedgerCheck(prep, item, notified_set) ==
    IF item.name = Missing \/ item.url = NoUrl THEN "KeyError"
    ELSE IF shop_name(item) \in prep.excluded THEN "ExcludedShop"
    ELSE MatchItem(prep, item)

\* The body of the item loop up to the notification call: what happens to one
\* hit. "KeyError" (item['name'], item['url']) is an exception nothing
\* catches; then the shop name is looked up in the exclusion set and the URL
\* in notified_set.
EvaluateItem(prep, item, notified_set) ==
    IF item.name = Missing \/ item.url = NoUrl THEN "KeyError"
    ELSE IF shop_name(item) \in prep.excluded THEN "ExcludedShop"
    ELSE IF item.url \in notified_set THEN "AlreadyNotified"
    ELSE MatchItem(prep, item)

(***************************************************************************)
(* The two HTTP clients. An answer sequence gives the answer the server    *)
(* would give to the 1st, 2nd, ... request of one call; an event is a      *)
(* request (secs = 0) or a sleep of secs seconds.                          *)
(***************************************************************************)
\* retries=3, the default of both clients
Retries == 3

Request == [kind |-> "request", secs |-> 0]
Sleep(n) == [kind |-> "sleep", secs |-> n]

\* "exc" is a requests.exceptions.RequestException
SearchAnswers == {"200", "400", "429", "500", "exc"}

\* SearchFrom that tries again after a 400 answer
RECURSIVE SearchFrom_400Retried(_, _, _)
SearchFrom_400Retried(v, answers, attempt) ==
    IF attempt >= Retries THEN [result |-> "None", events |-> << >>]
    ELSE
      LET before == IF v = 2 THEN << Sleep(1) >> ELSE << >>
          a == answers[attempt + 1]
          retry(waits) ==
              LET rest == SearchFrom_400Retried(v, answers, attempt + 1)
              IN  [result |-> rest.result,
                   events |-> before \o << Request >> \o waits \o rest.events]
      IN  CASE a = "200" ->
                 [result |-> "json",
                  events |-> before \o << Request >>
                             \o (IF v = 1 THEN << Sleep(1) >> ELSE << >>)]
            [] a = "429" -> retry(<< Sleep(5), Sleep(2) >>)
            [] OTHER -> retry(<< Sleep(2) >>)

\* search_yahoo_items from attempt `attempt` on: result "json" or "None"
RECURSIVE SearchFrom(_, _, _)
SearchFrom(v, answers, attempt) ==
    IF attempt >= Retries THEN [result |-> "None", events |-> << >>]
    ELSE
      LET before == IF v = 2 THEN << Sleep(1) >> ELSE << >>
          a == answers[attempt + 1]
          retry(waits) ==
              LET rest == SearchFrom(v, answers, attempt + 1)
              IN  [result |-> rest.result,
                   events |-> before \o << Request >> \o waits \o rest.events]
      IN  CASE a = "200" ->
                 [result |-> "json",
                  events |-> before \o << Request >>
                             \o (IF v = 1 THEN << Sleep(1) >> ELSE << >>)]
            [] a = "400" -> [result |-> "None", events |-> before \o << Request >>]
            [] a = "429" -> retry(<< Sleep(5), Sleep(2) >>)
            [] OTHER -> retry(<< Sleep(2) >>)

\* search_yahoo_items with one attempt less
search_yahoo_items_OneAttemptLess(v, answers) == SearchFrom(v, answers, 1)

search_yahoo_items(v, answers) == SearchFrom(v, answers, 0)

\* what one search call can give, over all answer sequences
SearchOutcomes ==
    [v \in Variants |->
        { search_yahoo_items(v, answers) : answers \in [1 .. Retries -> SearchAnswers] }]

\* result of a search call: the parsed answer, or None
SearchResults == [v \in Variants |-> { out.result : out \in SearchOutcomes[v] }]

\* response.json(): an empty dict, or a dict whose 'hits' has nhits elements
SearchBodies ==
    {[empty |-> TRUE, nhits |-> 0]} \cup {[empty |-> FALSE, nhits |-> n] : n \in 0 .. MaxHits}

\* the Retry-After header of a 429 answer: absent, '3', or 'abc'
NotifyAnswers == {"200", "429", "429:3", "429:abc", "500", "exc"}

\* retry_after that asks for no wait
retry_after_NotWaited(a) ==
    CASE a \in {"429", "429:3"} -> 0
      [] OTHER -> -1

\* int(response.headers.get('Retry-After', 5)); -1 stands for ValueError
retry_after(a) ==
    CASE a = "429" -> 5
      [] a = "429:3" -> 3
      [] OTHER -> -1

\* NotifyFrom that tries again after an answer other than 200 and 429
RECURSIVE NotifyFrom_OtherRetried(_, _)
NotifyFrom_OtherRetried(answers, attempt) ==
    IF attempt >= Retries THEN [result |-> "False", events |-> << >>]
    ELSE
      LET a == answers[attempt + 1]
          retry(waits) ==
              LET rest == NotifyFrom_OtherRetried(answers, attempt + 1)
              IN  [result |-> rest.result,
                   events |-> << Request >> \o waits \o rest.events]
      IN  CASE a = "200" -> [result |-> "True", events |-> << Request, Sleep(1) >>]
            [] a \in {"429", "429:3", "429:abc"} ->
                 IF retry_after(a) < 0
                 THEN [result |-> "ValueError", events |-> << Request >>]
                 ELSE retry(<< Sleep(retry_after(a)), Sleep(2) >>)
            [] OTHER -> retry(<< Sleep(2) >>)

\* send_chatwork_notification from attempt `attempt` on: result "True",
\* "False", or "ValueError" (raised by int(), it leaves the function)
RECURSIVE NotifyFrom(_, _)
NotifyFrom(answers, attempt) ==
    IF attempt >= Retries THEN [result |-> "False", events |-> << >>]
    ELSE
      LET a == answers[attempt + 1]
          retry(waits) ==
              LET rest == NotifyFrom(answers, attempt + 1)
              IN  [result |-> rest.result,
                   events |-> << Request >> \o waits \o rest.events]
      IN  CASE a = "200" -> [result |-> "True", events |-> << Request, Sleep(1) >>]
            [] a \in {"429", "429:3", "429:abc"} ->
                 IF retry_after(a) < 0
                 THEN [result |-> "ValueError", events |-> << Request >>]
                 ELSE retry(<< Sleep(retry_after(a)), Sleep(2) >>)
            [] a = "exc" -> retry(<< Sleep(2) >>)
            [] OTHER -> [result |-> "False", events |-> << Request >>]

send_chatwork_notification(answers) == NotifyFrom(answers, 0)

NotifyOutcomes ==
    { send_chatwork_notification(answers) : answers \in [1 .. Retries -> NotifyAnswers] }

\* result of a notification call
NotifyResults == { out.result : out \in NotifyOutcomes }

(***************************************************************************)
(* Batch arithmetic of lambda_handler.                                     *)
(***************************************************************************)
\* Partition with both variants starting at row 0
Partition_SameStart(v, cfg) ==
    [k \in 1 .. Cardinality({i \in 0 .. (Len(cfg) - 1) : i % 2 = 0}) |->
        [index |-> 2 * (k - 1), row |-> cfg[2 * (k - 1) + 1]]]

\* config_data.iloc[::2] (variant 1) or .iloc[1::2] (variant 2): the rows kept,
\* each with its 0-based index in the unfiltered file
Partition(v, cfg) ==
    LET first == IF v = 1 THEN 0 ELSE 1
        kept == {i \in 0 .. (Len(cfg) - 1) : i >= first /\ (i - first) % 2 = 0}
    IN  [k \in 1 .. Cardinality(kept) |->
            [index |-> first + 2 * (k - 1), row |-> cfg[first + 2 * (k - 1) + 1]]]

\* TotalBatches rounding down
TotalBatches_Floor(len, size) == len \div size

\* (len(config_data) + batch_size - 1) // batch_size
TotalBatches(len, size) == (len + size - 1) \div size

\* data.iloc[start_index:end_index]: positions start_index .. end_index - 1,
\* cut at the length of data
ILocSlice(data, start_index, end_index) ==
    LET lo == IF start_index < Len(data) THEN start_index ELSE Len(data)
        hi == IF end_index < Len(data) THEN end_index ELSE Len(data)
    IN  SubSeq(data, lo + 1, hi)

\* batch_data of batch current_batch
BatchData(data, batch, size) ==
    LET start_index == batch * size
        end_index == start_index + size
    IN  ILocSlice(data, start_index, end_index)

(***************************************************************************)
(* State.                                                                  *)
(***************************************************************************)
VARIABLES
    variant,                \* which function is deployed: 1 or 2
    config,                 \* the rows of config.csv in S3
    batch_size,             \* BATCH_SIZE
    ledger,                 \* the persisted ledger: set of item URLs
    cache,                  \* S3 object temp_excluded_shops_yahoo.json
    pending,                \* current_batch of the asynchronous invocation
                            \* in flight, or NoBatch
    pc,                     \* where the running invocation is
    current_batch,
    global_excluded_shops,
    batch_data,
    total_batches,
    notified_set,
    new_notified_urls,
    rowpos,                 \* rows of batch_data the row loop is done with
    hits_left,              \* hits of the current answer still to come
    status,                 \* statusCode returned, 0 while running
    \* what has been observed, for the properties
    loaded_set,             \* the ledger set as loaded by this invocation
    calls,                  \* calls made by this invocation, by kind
                            \* (config_loaded: reads of config.csv that succeeded;
                            \* ledger_written: ledger writes that succeeded;
                            \* failed: 1 once a search call returned None or a
                            \* notification call returned False;
                            \* searched: the rows of config.csv, by 0-based
                            \* index, a search call was made for;
                            \* exclusions_failed: 1 when the global exclusion
                            \* list could not be had)
    notify_urls,            \* URLs this invocation called the notifier for
    notified_ok,            \* URLs this invocation notified successfully
    last,                   \* the last hit evaluated: outcome, URL in the loaded
                            \* set, shop in the exclusion set
    runs,                   \* runs started by the schedule
    triggered,              \* current_batch values this invocation sent on
    visits,                 \* per row of config.csv: times the row loop of
                            \* this chain took it
    sends,                  \* per URL: successful notifications ever (saturating)
    \* the batch arithmetic alone, both variants side by side
    cursor,                 \* per variant: batches run so far
    slices,                 \* per variant: batch_data of each batch run
    \* one call of a function of the source on its own
    probe,                  \* the arguments of the call
    verdict,                \* what the call gave
    \* the run the schedule started last
    run_exclusions,         \* global_excluded_shops of its batch 0
    chain,                  \* current_batch of its invocations, in order
    \* two invocations that share the ledger and overlap in time
    overlap                 \* per invocation: where it is, its notified_set
                            \* and the URLs it notified

vars ==
    << variant, config, batch_size, ledger, cache, pending, pc, current_batch,
       global_excluded_shops, batch_data, total_batches, notified_set,
       new_notified_urls, rowpos, hits_left, status, loaded_set, calls,
       notify_urls, notified_ok, last, triggered, visits, sends, runs,
       cursor, slices, probe, verdict, run_exclusions, chain, overlap >>

batchvars == << cursor, slices >>
unitvars == << probe, verdict >>
runvars == << run_exclusions, chain >>
deployment == << variant, config, batch_size >>
invocation ==
    << current_batch, global_excluded_shops, batch_data, total_batches,
       notified_set, new_notified_urls, rowpos, hits_left, loaded_set >>

NoBatch == -1
NoProbe == [kind |-> "none"]
NoVerdict == [result |-> "none"]
Invocations == {1, 2}
NoOverlap ==
    [i \in Invocations |-> [pc |-> "idle", notified_set |-> {}, notified |-> {}]]
NoCalls ==
    [config_load |-> 0, config_loaded |-> 0, ledger_load |-> 0, search |-> 0,
     ledger_write |-> 0, ledger_written |-> 0, failed |-> 0, searched |-> {},
     exclusions_failed |-> 0]
NoLast ==
    [outcome |-> "none", in_loaded |-> FALSE, excluded |-> FALSE,
     in_ok |-> FALSE]
AbsentCache == [present |-> FALSE, shops |-> << >>]

Ended == pc \in {"done", "raised"}

\* nothing has run yet
Fresh ==
    /\ ledger = {}
    /\ cache = AbsentCache
    /\ pending = NoBatch
    /\ pc = "idle"
    /\ current_batch = 0
    /\ global_excluded_shops = << >>
    /\ batch_data = << >>
    /\ total_batches = 0
    /\ notified_set = {}
    /\ new_notified_urls = << >>
    /\ rowpos = 0
    /\ hits_left = 0
    /\ status = 0
    /\ loaded_set = {}
    /\ calls = NoCalls
    /\ notify_urls = {}
    /\ notified_ok = {}
    /\ last = NoLast
    /\ triggered = << >>
    /\ visits = [i \in 0 .. (Len(config) - 1) |-> 0]
    /\ sends = [u \in URLs |-> 0]
    /\ runs = 0
    /\ cursor = [v \in Variants |-> 0]
    /\ slices = [v \in Variants |-> << >>]
    /\ verdict = NoVerdict
    /\ run_exclusions = << >>
    /\ chain = << >>
    /\ overlap = NoOverlap

Init ==
    /\ variant \in Variants
    /\ config \in Configs
    /\ batch_size \in 1 .. MaxBatchSize
    /\ probe = NoProbe
    /\ Fresh

\* lambda_handler begins with event {'current_batch': batch} (batch 0: event {})
Begin(batch) ==
    /\ pc' = IF variant = 1 THEN "load_exclusions" ELSE "load_config"
    /\ current_batch' = batch
    /\ global_excluded_shops' = << >>
    /\ batch_data' = << >>
    /\ total_batches' = 0
    /\ notified_set' = {}
    /\ new_notified_urls' = << >>
    /\ rowpos' = 0
    /\ hits_left' = 0
    /\ status' = 0
    /\ loaded_set' = {}
    /\ calls' = NoCalls
    /\ notify_urls' = {}
    /\ notified_ok' = {}
    /\ last' = NoLast
    /\ triggered' = << >>

\* the schedule starts a run: an invocation without current_batch
ScheduledInvoke ==
    /\ pc \in {"idle", "done", "raised"}
    /\ pending = NoBatch
    /\ runs < MaxRuns
    /\ runs' = runs + 1
    /\ Begin(0)
    /\ visits' = [i \in DOMAIN visits |-> 0]
    /\ chain' = << 0 >>
    /\ run_exclusions' = << >>
    /\ UNCHANGED << deployment, ledger, cache, pending, sends, batchvars,
                    unitvars, overlap >>

\* the asynchronous invocation sent by the previous batch arrives
TriggeredInvoke ==
    /\ Ended
    /\ pending # NoBatch
    /\ Begin(pending)
    /\ pending' = NoBatch
    /\ chain' = Append(chain, pending)
    /\ UNCHANGED << deployment, ledger, cache, visits, sends, runs, batchvars,
                    unitvars, run_exclusions, overlap >>

\* LoadGlobalExclusions that returns 500 when the list cannot be had
LoadGlobalExclusions_Fatal ==
    /\ pc = "load_exclusions"
    /\ pc' = "done"
    /\ status' = 500
    /\ global_excluded_shops' = << >>
    /\ calls' = [calls EXCEPT !.exclusions_failed = 1]
    /\ run_exclusions' = IF current_batch = 0 THEN << >> ELSE run_exclusions
    /\ UNCHANGED << deployment, ledger, cache, pending, current_batch, batch_data,
                    total_batches, notified_set, new_notified_urls, rowpos,
                    hits_left, loaded_set,
                    notify_urls, notified_ok, last, triggered, visits, sends,
                    runs, batchvars, unitvars, chain, overlap >>

\* Variant 1 only. Batch 0 reads the sheet and writes the list to the S3 cache;
\* a later batch reads the cache. Every failure is caught.
LoadGlobalExclusions ==
    /\ pc = "load_exclusions"
    /\ pc' = "load_config"
    /\ IF current_batch = 0
       THEN \/ \* GOOGLE_SECRET_NAME or SPREADSHEET_ID unset, or the secret
               \* cannot be fetched: the list stays []
               /\ global_excluded_shops' = << >>
               /\ cache' = cache
               /\ calls' = [calls EXCEPT !.exclusions_failed = 1]
            \/ \* the sheet is read, then cached
               \E values \in SheetValues :
                 /\ global_excluded_shops' = get_excluded_shops_from_sheets(values)
                 /\ calls' = calls
                 /\ \/ cache' = [present |-> TRUE,
                                 shops |-> get_excluded_shops_from_sheets(values)]
                    \/ \* s3.put_object raises: the list is kept, the cache is not written
                       cache' = cache
            \/ \* the read of the sheet raises: [] is returned, then cached
               /\ global_excluded_shops' = << >>
               /\ calls' = [calls EXCEPT !.exclusions_failed = 1]
               /\ \/ cache' = [present |-> TRUE, shops |-> << >>]
                  \/ cache' = cache
       ELSE \/ /\ cache.present
               /\ global_excluded_shops' = cache.shops
               /\ cache' = cache
               /\ calls' = calls
            \/ \* s3.get_object raises (no such key, or any other error)
               /\ global_excluded_shops' = << >>
               /\ cache' = cache
               /\ calls' = [calls EXCEPT !.exclusions_failed = 1]
    /\ run_exclusions' =
          IF current_batch = 0 THEN global_excluded_shops' ELSE run_exclusions
    /\ UNCHANGED << deployment, ledger, pending, current_batch, batch_data,
                    total_batches, notified_set, new_notified_urls, rowpos,
                    hits_left, status, loaded_set,
                    notify_urls, notified_ok, last, triggered, visits, sends,
                    runs, batchvars, unitvars, chain, overlap >>

\* LoadConfig whose except branch does not return
LoadConfig_NoReturn ==
    /\ pc = "load_config"
    /\ pc' = "load_ledger"
    /\ status' = status
    /\ \/ LET config_data == Partition(variant, config)
          IN  /\ total_batches' = TotalBatches(Len(config_data), batch_size)
              /\ batch_data' = BatchData(config_data, current_batch, batch_size)
              /\ calls' = [calls EXCEPT !.config_load = @ + 1, !.config_loaded = @ + 1]
       \/ /\ calls' = [calls EXCEPT !.config_load = @ + 1]
          /\ UNCHANGED << total_batches, batch_data >>
    /\ UNCHANGED << deployment, ledger, cache, pending, current_batch,
                    global_excluded_shops, notified_set, new_notified_urls,
                    rowpos, hits_left, loaded_set, notify_urls,
                    notified_ok, last, triggered, visits, sends, runs, batchvars, unitvars, runvars, overlap >>

\* config.csv is read, filtered to the variant's rows and cut to the batch; a
\* failure of the read returns 500 at once
LoadConfig ==
    /\ pc = "load_config"
    /\ \/ LET config_data == Partition(variant, config)
          IN  /\ total_batches' = TotalBatches(Len(config_data), batch_size)
              /\ batch_data' = BatchData(config_data, current_batch, batch_size)
              /\ pc' = "load_ledger"
              /\ status' = status
              /\ calls' = [calls EXCEPT !.config_load = @ + 1, !.config_loaded = @ + 1]
       \/ /\ pc' = "done"
          /\ status' = 500
          /\ calls' = [calls EXCEPT !.config_load = @ + 1]
          /\ UNCHANGED << total_batches, batch_data >>
    /\ UNCHANGED << deployment, ledger, cache, pending, current_batch,
                    global_excluded_shops, notified_set, new_notified_urls,
                    rowpos, hits_left, loaded_set, notify_urls,
                    notified_ok, last, triggered, visits, sends, runs, batchvars, unitvars, runvars, overlap >>

\* load_notified_list_from_dynamodb / load_notified_list: the whole ledger, or
\* the empty set when the read raises
LoadLedger ==
    /\ pc = "load_ledger"
    /\ calls' = [calls EXCEPT !.ledger_load = @ + 1]
    /\ \/ notified_set' = ledger
       \/ notified_set' = {}
    /\ loaded_set' = notified_set'
    /\ pc' = "rows"
    /\ rowpos' = 0
    /\ UNCHANGED << deployment, ledger, cache, pending, current_batch,
                    global_excluded_shops, batch_data, total_batches,
                    new_notified_urls, hits_left, status, 
                    notify_urls, notified_ok, last, triggered, visits, sends, runs, batchvars, unitvars, runvars, overlap >>

\* One turn of the row loop of search_and_notify up to the answer of the
\* search: the row is skipped (empty or one-character keyword), or searched.
ProcessRow ==
    /\ pc = "rows"
    /\ rowpos < Len(batch_data)
    /\ LET entry == batch_data[rowpos + 1]
       IN  /\ visits' = [visits EXCEPT ![entry.index] = IF @ < 2 THEN @ + 1 ELSE @]
           /\ IF RowPrelude(entry.row) # "search"
              THEN /\ rowpos' = rowpos + 1
                   /\ UNCHANGED << hits_left, calls, pc >>
              ELSE \E result \in SearchResults[variant], body \in SearchBodies :
                     /\ calls' = [calls EXCEPT !.search = @ + 1,
                                               !.failed = IF result = "None" THEN 1 ELSE @,
                                               !.searched = @ \cup {entry.index}]
                     /\ IF result = "json" /\ ~body.empty /\ body.nhits > 0
                        THEN /\ hits_left' = body.nhits
                             /\ pc' = "items"
                             /\ rowpos' = rowpos
                        ELSE /\ rowpos' = rowpos + 1
                             /\ UNCHANGED << hits_left, pc >>
    /\ last' = NoLast
    /\ UNCHANGED << deployment, ledger, cache, pending, current_batch,
                    global_excluded_shops, batch_data, total_batches,
                    notified_set, new_notified_urls, status, loaded_set,
                    notify_urls, notified_ok, triggered, sends, runs, batchvars, unitvars, runvars, overlap >>

\* what the item loop does with one hit, and what the properties read of it:
\* whether its URL was in the set loaded, whether its shop name, trimmed and
\* lowercased, is in the global list or in the row's list, whether its URL was
\* notified with success earlier in the invocation
Evaluation(prep, in_lists, item) ==
    [url |-> item.url,
     outcome |-> EvaluateItem(prep, item, notified_set),
     in_loaded |-> item.url \in loaded_set,
     in_ok |-> item.url \in notified_ok,
     excluded |->
        Lower(Strip(IF item.seller = Missing THEN UnknownShop ELSE item.seller))
            \in in_lists]

\* the evaluations the next hit can have
Evaluations ==
    LET row == batch_data[rowpos + 1].row
        prep == PrepareRow(variant, global_excluded_shops, row)
        in_lists == Range(global_excluded_shops) \cup Range(excluded_shops(row))
    IN  { Evaluation(prep, in_lists, item) : item \in Items }

\* the item loop goes on to the next hit, or the row loop to the next row
NextHit ==
    /\ hits_left' = hits_left - 1
    /\ IF hits_left = 1
       THEN pc' = "rows" /\ rowpos' = rowpos + 1
       ELSE pc' = "items" /\ rowpos' = rowpos
    /\ status' = status

\* an exception leaves search_and_notify and lambda_handler
Uncaught ==
    /\ pc' = "raised"
    /\ status' = -1
    /\ UNCHANGED << hits_left, rowpos >>

\* One turn of the item loop: the next hit of the answer is evaluated and, if
\* it passes, notified.
ProcessItem ==
    /\ pc = "items"
    /\ hits_left > 0
    /\ \E ev \in Evaluations :
        CASE ev.outcome \in {"KeyError", "TypeError"} ->
               /\ Uncaught
               /\ last' = [outcome |-> ev.outcome, in_loaded |-> ev.in_loaded,
                           excluded |-> ev.excluded, in_ok |-> ev.in_ok]
               /\ UNCHANGED << notified_set, new_notified_urls, notify_urls,
                               notified_ok, sends, calls >>
          [] ev.outcome = "send" ->
               /\ notify_urls' = notify_urls \cup {ev.url}
               /\ \E success \in NotifyResults :
                    /\ last' = [outcome |-> success, in_loaded |-> ev.in_loaded,
                                excluded |-> ev.excluded, in_ok |-> ev.in_ok]
                    /\ CASE success = "True" ->
                              /\ notified_set' = notified_set \cup {ev.url}
                              /\ new_notified_urls' =
                                    IF variant = 1
                                    THEN Append(new_notified_urls, ev.url)
                                    ELSE new_notified_urls
                              /\ notified_ok' = notified_ok \cup {ev.url}
                              /\ sends' = [sends EXCEPT ![ev.url] =
                                              IF @ < MaxSends THEN @ + 1 ELSE @]
                              /\ NextHit
                              /\ calls' = calls
                         [] success = "False" ->
                              /\ NextHit
                              /\ calls' = [calls EXCEPT !.failed = 1]
                              /\ UNCHANGED << notified_set, new_notified_urls,
                                              notified_ok, sends >>
                         [] OTHER ->
                              /\ Uncaught
                              /\ UNCHANGED << notified_set, new_notified_urls,
                                              notified_ok, sends, calls >>
          [] OTHER ->
               /\ NextHit
               /\ last' = [outcome |-> ev.outcome, in_loaded |-> ev.in_loaded,
                           excluded |-> ev.excluded, in_ok |-> ev.in_ok]
               /\ UNCHANGED << notified_set, new_notified_urls, notify_urls,
                               notified_ok, sends, calls >>
    /\ UNCHANGED << deployment, ledger, cache, pending, current_batch,
                    global_excluded_shops, batch_data, total_batches,
                    loaded_set, triggered, visits, runs, batchvars, unitvars, runvars, overlap >>

\* PersistLedger run after every row of the batch
PersistLedger_AfterEachRow ==
    /\ pc = "rows"
    /\ rowpos > 0
    /\ pc' = IF rowpos = Len(batch_data) THEN "trigger" ELSE "rows"
    /\ calls' = [calls EXCEPT !.ledger_write = IF @ < 2 THEN @ + 1 ELSE @,
                              !.ledger_written = IF @ < 2 THEN @ + 1 ELSE @]
    /\ ledger' = ledger \cup notified_set
    /\ last' = NoLast
    /\ UNCHANGED << deployment, cache, pending, current_batch,
                    global_excluded_shops, batch_data, total_batches,
                    notified_set, new_notified_urls, rowpos, hits_left, status,
                    loaded_set, notify_urls, notified_ok,
                    triggered, visits, sends, runs, batchvars, unitvars, runvars, overlap >>

\* After the last row. Variant 1: save_to_dynamodb puts the new URLs, if there
\* are any; when the batch write raises, any part of them may have been put.
\* Variant 2: save_notified_list replaces the object by notified_set; when
\* put_object raises the object is as it was.
PersistLedger ==
    /\ pc = "rows"
    /\ rowpos = Len(batch_data)
    /\ pc' = "trigger"
    /\ IF variant = 1
       THEN IF new_notified_urls = << >>
            THEN UNCHANGED << ledger, calls >>
            ELSE \/ /\ ledger' = ledger \cup Range(new_notified_urls)
                    /\ calls' = [calls EXCEPT !.ledger_write = @ + 1,
                                              !.ledger_written = @ + 1]
                 \/ \E put \in SUBSET Range(new_notified_urls) :
                      /\ put # Range(new_notified_urls)
                      /\ ledger' = ledger \cup put
                      /\ calls' = [calls EXCEPT !.ledger_write = @ + 1]
       ELSE \/ /\ ledger' = notified_set
               /\ calls' = [calls EXCEPT !.ledger_write = @ + 1,
                                         !.ledger_written = @ + 1]
            \/ /\ ledger' = ledger
               /\ calls' = [calls EXCEPT !.ledger_write = @ + 1]
    /\ last' = NoLast
    /\ UNCHANGED << deployment, cache, pending, current_batch,
                    global_excluded_shops, batch_data, total_batches,
                    notified_set, new_notified_urls, rowpos, hits_left, status,
                    loaded_set, notify_urls, notified_ok,
                    triggered, visits, sends, runs, batchvars, unitvars, runvars, overlap >>

\* TriggerNext that never invokes the next batch
TriggerNext_Never ==
    /\ pc = "trigger"
    /\ pc' = "done"
    /\ status' = 200
    /\ UNCHANGED << triggered, pending >>
    /\ UNCHANGED << deployment, ledger, cache, current_batch,
                    global_excluded_shops, batch_data, total_batches,
                    notified_set, new_notified_urls, rowpos, hits_left,
                    loaded_set, calls, notify_urls, notified_ok,
                    last, visits, sends, runs, batchvars, unitvars, runvars, overlap >>

\* The end of lambda_handler: the next batch is invoked asynchronously when
\* there is one; a failure of that call returns 500.
TriggerNext ==
    /\ pc = "trigger"
    /\ pc' = "done"
    /\ IF current_batch + 1 < total_batches
       THEN /\ triggered' = Append(triggered, current_batch + 1)
            /\ \/ pending' = current_batch + 1 /\ status' = 200
               \/ pending' = pending /\ status' = 500
       ELSE /\ status' = 200
            /\ UNCHANGED << triggered, pending >>
    /\ UNCHANGED << deployment, ledger, cache, current_batch,
                    global_excluded_shops, batch_data, total_batches,
                    notified_set, new_notified_urls, rowpos, hits_left,
                    loaded_set, calls, notify_urls, notified_ok,
                    last, visits, sends, runs, batchvars, unitvars, runvars, overlap >>

Next ==
    \/ ScheduledInvoke
    \/ TriggeredInvoke
    \/ LoadGlobalExclusions
    \/ LoadConfig
    \/ LoadLedger
    \/ ProcessRow
    \/ ProcessItem
    \/ PersistLedger
    \/ TriggerNext

Spec == Init /\ [][Next]_vars

(***************************************************************************)
(* One run of the schedule. Lambda runs the code of an invocation to its   *)
(* end and delivers an asynchronous invocation that was accepted, so every *)
(* step that can be taken is taken in the end.                             *)
(***************************************************************************)
ScheduledOnce == runs = 0 /\ ScheduledInvoke

NextChain ==
    \/ ScheduledOnce
    \/ TriggeredInvoke
    \/ LoadGlobalExclusions
    \/ LoadConfig
    \/ LoadLedger
    \/ ProcessRow
    \/ ProcessItem
    \/ PersistLedger
    \/ TriggerNext

\* every step but the turn of the item loop
NextOutsideItems ==
    \/ ScheduledOnce
    \/ TriggeredInvoke
    \/ LoadGlobalExclusions
    \/ LoadConfig
    \/ LoadLedger
    \/ ProcessRow
    \/ PersistLedger
    \/ TriggerNext

\* weak fairness of ProcessItem, with its enabling condition written out: the
\* item loop does not stay for ever before a hit it could take
ItemLoopRuns ==
    \/ []<>(~(pc = "items" /\ hits_left > 0))
    \/ []<><<ProcessItem>>_vars

SpecChain ==
    Init /\ [][NextChain]_vars /\ WF_vars(NextOutsideItems) /\ ItemLoopRuns

(***************************************************************************)
(* The batch arithmetic alone: for both variants, the chain of invocations *)
(* reduced to what lambda_handler computes from config.csv, BATCH_SIZE and *)
(* current_batch. Batch 0 always runs; batch i + 1 runs when batch i found *)
(* i + 1 < total_batches.                                                  *)
(***************************************************************************)
BatchConfigs == { [i \in 1 .. n |-> RuleCatalog[1]] : n \in 0 .. BatchMaxRows }

InitBatches ==
    /\ variant = 1
    /\ config \in BatchConfigs
    /\ batch_size \in 1 .. BatchMaxSize
    /\ probe = NoProbe
    /\ Fresh

SliceBatch(v) ==
    LET config_data == Partition(v, config)
        total == TotalBatches(Len(config_data), batch_size)
    IN  /\ cursor[v] = 0 \/ cursor[v] < total
        /\ slices' = [slices EXCEPT ![v] =
                         Append(@, BatchData(config_data, cursor[v], batch_size))]
        /\ cursor' = [cursor EXCEPT ![v] = @ + 1]
        /\ UNCHANGED << deployment, ledger, cache, pending, pc, invocation,
                        status, calls, notify_urls, notified_ok, last,
                        triggered, visits, sends, runs, unitvars, runvars,
                        overlap >>

NextBatches == \E v \in Variants : SliceBatch(v)

SpecBatches == InitBatches /\ [][NextBatches]_vars

(***************************************************************************)
(* The functions on their own: one call of send_chatwork_notification, one *)
(* call of search_yahoo_items, or one turn of the item loop of             *)
(* search_and_notify, for arguments drawn from the sets below.             *)
(***************************************************************************)
\* cells of config.csv: 'ab s', 'AB', 'a bs'
KeywordCells ==
    { << "a", "b", " ", "s" >>, << "A", "B" >>, << "a", " ", "b", "s" >> }
\* no ng_keyword, 'S', 'x S'
NgCells == { NaN, << "S" >>, << "x", " ", "S" >> }
\* no sellerIdExs, '"SA , sc"'
SellerIdExsCells == { NaN, << "\"", "S", "A", " ", ",", " ", "s", "c", "\"" >> }
\* 'N', ' N', 'N|o', 'o', 'N|N'
ConditionCells ==
    { << "N" >>, << " ", "N" >>, << "N", "|", "o" >>, << "o" >>,
      << "N", "|", "N" >> }

\* rows of config.csv the row loop searches for
ProbeRows ==
    [product_keyword : KeywordCells, ng_keyword : NgCells,
     sellerIdExs : SellerIdExsCells, product_condition : ConditionCells]

\* the answers to the search call of the next row: the same to every request
NextRowAnswers == { [i \in 1 .. Retries |-> a] : a \in SearchAnswers }

\* the arguments of one call: the answers of the server to a notification or
\* search call, or to the search calls of two rows in a row, or a row, a hit,
\* notified_set and global_excluded_shops (variant 2 has no global list)
Probes(v) ==
    [kind : {"notify"}, answers : [1 .. Retries -> NotifyAnswers]]
    \cup [kind : {"search"}, answers : [1 .. Retries -> SearchAnswers]]
    \cup [kind : {"searches"}, answers : [1 .. Retries -> SearchAnswers],
          next_answers : NextRowAnswers]
    \cup [kind : {"item"}, row : ProbeRows, item : Items,
          notified_set : {{}, {"u1"}},
          global_excluded_shops :
              IF v = 1 THEN {<< >>, << << "s", "b" >> >>} ELSE {<< >>}]

InitUnits ==
    /\ variant \in Variants
    /\ config = << >>
    /\ batch_size = 1
    /\ probe \in Probes(variant)
    /\ Fresh

unitframe ==
    << deployment, ledger, cache, pending, pc, invocation, status, calls,
       notify_urls, notified_ok, last, triggered, visits, sends, runs,
       batchvars, probe, runvars, overlap >>

\* success = send_chatwork_notification(...)
CallNotifier ==
    /\ probe.kind = "notify"
    /\ verdict = NoVerdict
    /\ verdict' = send_chatwork_notification(probe.answers)
    /\ UNCHANGED unitframe

\* result = search_yahoo_items(...)
CallSearch ==
    /\ probe.kind = "search"
    /\ verdict = NoVerdict
    /\ verdict' = search_yahoo_items(variant, probe.answers)
    /\ UNCHANGED unitframe

\* the search calls of two rows, the first of which gave nothing to notify:
\* the row loop goes from one call straight to the next
CallSearchTwice ==
    /\ probe.kind = "searches"
    /\ verdict = NoVerdict
    /\ LET first == search_yahoo_items(variant, probe.answers)
           second == search_yahoo_items(variant, probe.next_answers)
       IN  verdict' = [result |-> second.result,
                       events |-> first.events \o second.events]
    /\ UNCHANGED unitframe

\* one turn of the item loop, up to the notification call
JudgeItem ==
    /\ probe.kind = "item"
    /\ verdict = NoVerdict
    /\ LET prep == PrepareRow(variant, probe.global_excluded_shops, probe.row)
       IN  verdict' =
             [outcome |-> EvaluateItem(prep, probe.item, probe.notified_set),
              notify_condition |-> prep.notify_condition]
    /\ UNCHANGED unitframe

NextUnits == CallNotifier \/ CallSearch \/ CallSearchTwice \/ JudgeItem

SpecUnits == InitUnits /\ [][NextUnits]_vars

(***************************************************************************)
(* Two invocations of the deployed variant that share the ledger and       *)
(* overlap in time: both load the ledger before either persists. Of an     *)
(* invocation only the ledger traffic is kept: the load, the successful    *)
(* notifications of URLs that are not in its notified_set, the persist.    *)
(***************************************************************************)
InitOverlap ==
    /\ variant \in Variants
    /\ config = << >>
    /\ batch_size = 1
    /\ probe = NoProbe
    /\ Fresh

overlapframe ==
    << deployment, cache, pending, pc, invocation, status, calls, notify_urls,
       notified_ok, last, triggered, visits, sends, runs, batchvars, unitvars,
       runvars >>

\* notified_set = load_notified_list(...) / load_notified_list_from_dynamodb(...)
OverlapLoad(i) ==
    /\ overlap[i].pc = "idle"
    /\ overlap' = [overlap EXCEPT ![i].pc = "running", ![i].notified_set = ledger]
    /\ UNCHANGED << ledger, overlapframe >>

\* a hit whose URL is not in notified_set is notified with success
OverlapNotify(i, url) ==
    /\ overlap[i].pc = "running"
    /\ url \notin overlap[i].notified_set
    /\ overlap' = [overlap EXCEPT ![i].notified_set = @ \cup {url},
                                  ![i].notified = @ \cup {url}]
    /\ UNCHANGED << ledger, overlapframe >>

\* save_to_dynamodb puts the new URLs; save_notified_list replaces the object
\* by notified_set
OverlapPersist(i) ==
    /\ overlap[i].pc = "running"
    /\ \A j \in Invocations : overlap[j].pc # "idle"
    /\ overlap' = [overlap EXCEPT ![i].pc = "done"]
    /\ ledger' = IF variant = 1
                 THEN ledger \cup overlap[i].notified
                 ELSE overlap[i].notified_set
    /\ UNCHANGED overlapframe

NextOverlap ==
    \E i \in Invocations :
        \/ OverlapLoad(i)
        \/ \E url \in URLs : OverlapNotify(i, url)
        \/ OverlapPersist(i)

SpecOverlap == InitOverlap /\ [][NextOverlap]_vars

(***************************************************************************)
(* Properties.                                                             *)
(***************************************************************************)
\* the answers of the notifier that mean a request was sent for the hit
Sent == {"True", "False", "ValueError"}

\* the rows of config.csv (0-based) that belong to the deployed variant
OwnRows == {i \in DOMAIN visits : i % 2 = variant - 1}

\* the run is over: the last invocation has ended and none is in flight
ChainOver == Ended /\ pending = NoBatch

\* C1: each item URL is the subject of at most one successful notification,
\* over all invocations of the variant against its ledger.
C1_AtMostOneNotification == \A u \in URLs : sends[u] <= 1

\* C2: the persisted ledger only grows: a URL in it before a step of an
\* invocation is in it after the step.
C2_LedgerOnlyGrows == [][ledger \subseteq ledger']_vars

\* C3: no notification is sent for a hit whose URL is in the ledger set loaded
\* at the start of the invocation.
C3_LoadedUrlNotNotified ==
    /\ last.in_loaded => last.outcome \notin Sent
    /\ notify_urls \cap loaded_set = {}

C3_Witness == last.in_loaded /\ last.outcome = "AlreadyNotified"

\* C4: no notification is sent for a hit whose shop name, trimmed and
\* lowercased, is in the global list or in the row's own list.
C4_ExcludedShopNotNotified == last.excluded => last.outcome \notin Sent

C4_Witness ==
    /\ last.excluded
    /\ last.outcome = "ExcludedShop"
    /\ ~last.in_loaded
    /\ global_excluded_shops # << >>

\* C5: when a run started at batch 0 is over and no invocation of it returned
\* 500, every row of the variant's partition was taken by the row loop exactly
\* once, and no other row was taken.
C5_EachRowOnce ==
    (ChainOver /\ status # 500) =>
        \A i \in DOMAIN visits : visits[i] = (IF i \in OwnRows THEN 1 ELSE 0)

\* C8: an invocation that loaded the configuration sends exactly one
\* next-batch invocation, with current_batch + 1, when current_batch + 1 <
\* total_batches, and none otherwise.
C8_OneTriggerWhenMoreBatches ==
    (Ended /\ calls.config_loaded = 1) =>
        triggered = (IF current_batch + 1 < total_batches
                     THEN << current_batch + 1 >> ELSE << >>)

\* C9: an error raised while a row or a hit is processed does not abort the
\* batch: the invocation ends with every row of the batch taken and the
\* persist step passed.
C9_ErrorsStayInTheLoop ==
    (Ended /\ calls.config_loaded = 1) =>
        (pc = "done" /\ rowpos = Len(batch_data))

\* C10: an invocation whose configuration load failed returns 500, having made
\* one load attempt, no search, no notification, no ledger write and no
\* next-batch invocation.
C10_ConfigFailureIsFatal ==
    (Ended /\ calls.config_loaded = 0) =>
        /\ status = 500
        /\ calls.config_load = 1
        /\ calls.search = 0
        /\ calls.ledger_load = 0
        /\ calls.ledger_write = 0
        /\ notify_urls = {}
        /\ triggered = << >>
        /\ pending = NoBatch

C10_Witness == pc = "done" /\ calls.config_loaded = 0 /\ status = 500

\* the least n with n * size >= len
CeilDiv(len, size) ==
    CHOOSE n \in 0 .. len : n * size >= len /\ \A m \in 0 .. len : m * size >= len => n <= m

RECURSIVE Flatten(_)
Flatten(seqs) == IF seqs = << >> THEN << >> ELSE Head(seqs) \o Flatten(Tail(seqs))

Smaller(a, b) == IF a < b THEN a ELSE b

\* positions (0-based) of the partition that slice k (1-based) is to hold:
\* (k-1)*B .. min(k*B, M) - 1
SlicePositions(k, M, B) == Smaller((k - 1) * B, M) .. (Smaller(k * B, M) - 1)

\* the partition positions a recorded slice holds (a partition row at position
\* p has index 2p or 2p + 1 in config.csv)
PositionsOf(slice) == { slice[j].index \div 2 : j \in DOMAIN slice }

\* the chain of variant v has run all its batches
ChainDone(v) ==
    LET total == TotalBatches(Len(Partition(v, config)), batch_size)
    IN  cursor[v] > 0 /\ cursor[v] >= total

\* C6: total_batches is ceil(M/B); batch i holds exactly the positions
\* i*B .. min((i+1)*B, M) - 1; the batches are pairwise disjoint and, the chain
\* run to its end, their concatenation is the partition in order.
C6_BatchesPartitionTheRows ==
    \A v \in Variants :
        LET data == Partition(v, config)
            M == Len(data)
            B == batch_size
        IN  /\ TotalBatches(M, B) = CeilDiv(M, B)
            /\ \A k \in DOMAIN slices[v] :
                 /\ PositionsOf(slices[v][k]) = SlicePositions(k, M, B)
                 /\ Len(slices[v][k]) = Cardinality(SlicePositions(k, M, B))
            /\ \A k1, k2 \in DOMAIN slices[v] :
                 k1 # k2 => PositionsOf(slices[v][k1]) \cap PositionsOf(slices[v][k2]) = {}
            /\ ChainDone(v) =>
                 /\ Flatten(slices[v]) = data
                 /\ Len(slices[v]) = (IF CeilDiv(M, B) = 0 THEN 1 ELSE CeilDiv(M, B))

\* a chain of three batches run to its end, the last batch shorter than B
C6_Witness ==
    /\ ChainDone(1)
    /\ cursor[1] = 3
    /\ Len(slices[1][3]) > 0
    /\ Len(slices[1][3]) < batch_size

\* the rows of config.csv (0-based) a variant's batches have held so far
Claimed(v) == UNION { { slices[v][k][j].index : j \in DOMAIN slices[v][k] } : k \in DOMAIN slices[v] }

\* C7: no row of config.csv is held by a batch of variant 1 and by a batch of
\* variant 2.
C7_VariantsDisjoint == Claimed(1) \cap Claimed(2) = {}

\* both chains run to their end, each over more than one batch
C7_Witness ==
    /\ ChainDone(1) /\ ChainDone(2)
    /\ cursor[1] >= 2 /\ cursor[2] >= 2
    /\ Claimed(1) \cup Claimed(2) = 0 .. (Len(config) - 1)

\* C11: when the next-batch invocation fails, the invocation returns 500 with
\* every URL it notified successfully in the persisted ledger.
C11_TriggerFailureKeepsWork ==
    (pc = "done" /\ status = 500 /\ calls.config_loaded = 1) =>
        notified_ok \subseteq ledger

\* C12: an invocation in which a search call returned None or a notification
\* call returned False, and whose next-batch invocation did not fail, ends
\* with status 200 and every row of the batch taken.
C12_FailuresAreNotFatal ==
    (Ended /\ calls.failed = 1 /\ status # 500) =>
        (pc = "done" /\ status = 200 /\ rowpos = Len(batch_data))

\* the keyword of the row, split on single spaces, has one-character tokens only
OnlySingleCharacterTokens(row) ==
    LET tokens == Split(Str(row.product_keyword), " ")
    IN  \A i \in DOMAIN tokens : Len(tokens[i]) = 1

\* C13: no search call is made for a row whose keyword has one-character
\* tokens only, and the item loop (where notifications are sent) never runs
\* for such a row.
C13_SingleCharacterRulesNotSearched ==
    /\ \A k \in DOMAIN batch_data :
         OnlySingleCharacterTokens(batch_data[k].row) =>
             batch_data[k].index \notin calls.searched
    /\ pc = "items" => ~OnlySingleCharacterTokens(batch_data[rowpos + 1].row)

\* the row loop has passed a row of one-character tokens in a batch in which
\* it searched for another row
C13_Witness ==
    /\ pc \in {"rows", "trigger", "done"}
    /\ \E k \in 1 .. rowpos : OnlySingleCharacterTokens(batch_data[k].row)
    /\ calls.searched # {}

\* one turn of the item loop has been run on its own
Judged == probe.kind = "item" /\ verdict # NoVerdict

\* the condition tags of a row: the cell split at "|", each tag trimmed, as a set
ConditionTags(row) ==
    Range(MapSeq(Split(Strip(Str(row.product_condition)), "|"), Strip))

\* the condition policy of a row, from its set of tags
SpecifiedPolicy(row) ==
    IF ConditionTags(row) = {NewTag} THEN "ExcludeUsed"
    ELSE IF NewTag \in ConditionTags(row) THEN "IncludeAll"
    ELSE "UsedOnly"

\* the name of the hit contains the marker of used items
IsUsed(item) == Contains(UsedMarker, item.name)

\* C14: the policy of a row is ExcludeUsed when its set of tags is exactly
\* {new-only}, IncludeAll when the set holds new-only and another tag, UsedOnly
\* when it does not hold new-only; under ExcludeUsed no used item is notified,
\* under UsedOnly no other item is, under IncludeAll no item is skipped for
\* its condition.
C14_ConditionPolicy ==
    Judged =>
        LET policy == SpecifiedPolicy(probe.row)
        IN  /\ verdict.notify_condition =
                 (CASE policy = "ExcludeUsed" -> "exclude_chuko"
                    [] policy = "IncludeAll" -> "include_all"
                    [] OTHER -> "include_chuko_only")
            /\ (policy = "ExcludeUsed" /\ IsUsed(probe.item)) => verdict.outcome # "send"
            /\ (policy = "UsedOnly" /\ ~IsUsed(probe.item)) => verdict.outcome # "send"
            /\ policy = "IncludeAll" => verdict.outcome \notin {"ExcludeUsed", "UsedOnly"}

\* one call of the client `kind` has been run on its own
Called(kind) == probe.kind = kind /\ verdict # NoVerdict

\* the requests among the events of a call
RequestPositions(events) == {i \in DOMAIN events : events[i].kind = "request"}
Requests(events) == Cardinality(RequestPositions(events))

\* the position of the k-th request
RequestAt(events, k) ==
    CHOOSE i \in RequestPositions(events) :
        Cardinality({j \in RequestPositions(events) : j <= i}) = k

RECURSIVE SumSecs(_)
SumSecs(events) ==
    IF events = << >> THEN 0 ELSE Head(events).secs + SumSecs(Tail(events))

\* the time slept between the k-th request and the next one
WaitAfter(events, k) ==
    SumSecs(SubSeq(events, RequestAt(events, k) + 1, RequestAt(events, k + 1) - 1))

\* the wait after a 429 answer without Retry-After
DefaultRetryAfter == 5

\* C15: after a 429 answer with Retry-After: 3 the notifier sleeps at least 3
\* before its next request, after a 429 answer without the header at least
\* the default; when the first answer is such a 429 and the second is 200 the
\* call returns True after exactly two requests.
C15_RetryAfterIsWaited ==
    Called("notify") =>
        /\ \A k \in 1 .. (Retries - 1) :
             Requests(verdict.events) > k =>
                 /\ probe.answers[k] = "429:3" => WaitAfter(verdict.events, k) >= 3
                 /\ probe.answers[k] = "429" =>
                        WaitAfter(verdict.events, k) >= DefaultRetryAfter
        /\ (probe.answers[1] \in {"429", "429:3"} /\ probe.answers[2] = "200") =>
               (verdict.result = "True" /\ Requests(verdict.events) = 2)

C15_Witness ==
    /\ Called("notify")
    /\ probe.answers[1] = "429:3"
    /\ probe.answers[2] = "200"
    /\ verdict.result = "True"

\* C16: an answer of the notification API other than 200 and 429 ends the
\* call: it is the answer to the last request, nothing is slept after it, and
\* the call returns False.
C16_OtherStatusNotRetried ==
    Called("notify") =>
        \A k \in 1 .. Retries :
            (Requests(verdict.events) >= k /\ probe.answers[k] = "500") =>
                /\ verdict.result = "False"
                /\ Requests(verdict.events) = k
                /\ verdict.events[Len(verdict.events)] = Request

\* the first answer is a 500: two attempts remain and are not made
C16_Witness ==
    /\ Called("notify")
    /\ probe.answers[1] = "500"
    /\ verdict.result = "False"
    /\ Requests(verdict.events) = 1

\* the answers of the search API after which the call tries again
Retryable == {"429", "500", "exc"}

\* C17: a search call makes at most Retries requests; it returns the parsed
\* answer at the first 200 that follows only rate-limit, server and network
\* errors; it returns None after Retries requests that all ended so.
C17_SearchIsBounded ==
    Called("search") =>
        /\ Requests(verdict.events) <= Retries
        /\ \A k \in 1 .. Retries :
             (/\ probe.answers[k] = "200"
              /\ \A j \in 1 .. (k - 1) : probe.answers[j] \in Retryable) =>
                 (verdict.result = "json" /\ Requests(verdict.events) = k)
        /\ (\A j \in 1 .. Retries : probe.answers[j] \in Retryable) =>
               (verdict.result = "None" /\ Requests(verdict.events) = Retries)

\* the attempts are exhausted by a rate limit, a server error and a network error
C17_Witness ==
    /\ Called("search")
    /\ probe.answers = << "429", "500", "exc" >>
    /\ verdict.result = "None"
    /\ Requests(verdict.events) = Retries

\* C18: a 400 answer of the search API ends the call: it is the answer to the
\* last request, nothing is slept after it, and the call returns None.
C18_ClientErrorNotRetried ==
    Called("search") =>
        \A k \in 1 .. Retries :
            (Requests(verdict.events) >= k /\ probe.answers[k] = "400") =>
                /\ verdict.result = "None"
                /\ Requests(verdict.events) = k
                /\ verdict.events[Len(verdict.events)] = Request

\* the first answer is a 400: two attempts remain and are not made
C18_Witness ==
    /\ Called("search")
    /\ probe.answers[1] = "400"
    /\ verdict.result = "None"
    /\ Requests(verdict.events) = 1

\* the hit has a name and a URL
WellFormed(item) == item.name # Missing /\ item.url # NoUrl

\* the shop of the hit, trimmed and lowercased, is in the global list or in the
\* row's list
ShopExcluded ==
    Lower(Strip(IF probe.item.seller = Missing THEN UnknownShop ELSE probe.item.seller))
        \in Range(probe.global_excluded_shops) \cup Range(excluded_shops(probe.row))

\* the URL of the hit is in the ledger set
UrlKnown == probe.item.url \in probe.notified_set

\* every keyword token of length other than 1 is in the name, whatever the case
KeywordsPresent ==
    LET tokens == Split(Strip(Str(probe.row.product_keyword)), " ")
    IN  \A i \in DOMAIN tokens :
            Len(tokens[i]) # 1 => Contains(Lower(tokens[i]), Lower(probe.item.name))

\* a token of the negative keyword is in the name, whatever the case
NegativeHit ==
    /\ probe.row.ng_keyword # NaN
    /\ LET tokens == SplitWhitespace(Strip(Str(probe.row.ng_keyword)))
       IN  \E i \in DOMAIN tokens : Contains(Lower(tokens[i]), Lower(probe.item.name))

\* the condition policy of the row admits the hit
PolicyAdmits ==
    CASE SpecifiedPolicy(probe.row) = "ExcludeUsed" -> ~IsUsed(probe.item)
      [] SpecifiedPolicy(probe.row) = "UsedOnly" -> IsUsed(probe.item)
      [] OTHER -> TRUE

\* C19: the item loop calls the notifier for a hit exactly when the shop is
\* not excluded, the URL is not in the ledger set, every keyword token of
\* length other than 1 is in the name, no negative token is in the name, and
\* the condition policy admits the hit.
C19_DecisionIsTheSpecifiedOne ==
    (Judged /\ WellFormed(probe.item)) =>
        (verdict.outcome = "send" <=>
            (/\ ~ShopExcluded
             /\ ~UrlKnown
             /\ KeywordsPresent
             /\ ~NegativeHit
             /\ PolicyAdmits))

\* C20 (as stated): the skip reason is that of the first failing check in the
\* order ExcludedShop, AlreadyNotified, KeywordMismatch, NegativeKeywordHit,
\* condition policy.
C20_KeywordBeforeNegative ==
    (Judged /\ WellFormed(probe.item)) =>
        /\ verdict.outcome = "ExcludedShop" <=> ShopExcluded
        /\ verdict.outcome = "AlreadyNotified" <=> (~ShopExcluded /\ UrlKnown)
        /\ verdict.outcome = "KeywordMismatch" <=>
               (~ShopExcluded /\ ~UrlKnown /\ ~KeywordsPresent)
        /\ verdict.outcome = "NegativeKeywordHit" <=>
               (~ShopExcluded /\ ~UrlKnown /\ KeywordsPresent /\ NegativeHit)
        /\ verdict.outcome \in {"ExcludeUsed", "UsedOnly"} =>
               (~ShopExcluded /\ ~UrlKnown /\ KeywordsPresent /\ ~NegativeHit)

\* C20 (amended): the skip reason is that of the first failing check in the
\* order ExcludedShop, AlreadyNotified, NegativeKeywordHit, KeywordMismatch,
\* condition policy: a hit that misses a keyword token and holds a negative
\* token is skipped for NegativeKeywordHit.
C20_NegativeBeforeKeyword ==
    (Judged /\ WellFormed(probe.item)) =>
        /\ verdict.outcome = "ExcludedShop" <=> ShopExcluded
        /\ verdict.outcome = "AlreadyNotified" <=> (~ShopExcluded /\ UrlKnown)
        /\ verdict.outcome = "NegativeKeywordHit" <=>
               (~ShopExcluded /\ ~UrlKnown /\ NegativeHit)
        /\ verdict.outcome = "KeywordMismatch" <=>
               (~ShopExcluded /\ ~UrlKnown /\ ~NegativeHit /\ ~KeywordsPresent)
        /\ verdict.outcome \in {"ExcludeUsed", "UsedOnly"} =>
               (~ShopExcluded /\ ~UrlKnown /\ ~NegativeHit /\ KeywordsPresent)

\* a hit that misses a keyword token and holds a negative token has passed the
\* two lookups
C20_Witness ==
    /\ Judged
    /\ WellFormed(probe.item)
    /\ ~ShopExcluded /\ ~UrlKnown
    /\ ~KeywordsPresent /\ NegativeHit
    /\ verdict.outcome = "NegativeKeywordHit"

\* C21: the URLs an invocation adds to the persisted ledger are exactly those
\* whose notification call returned True in it: no step adds another URL, and
\* when the invocation ends each of them is in the ledger.
C21_AddedAreTheNotified ==
    [][/\ (ledger' \ ledger) \subseteq notified_ok
       /\ (pc \in {"items", "trigger"} /\ pc' \in {"done", "raised"}) =>
              notified_ok' \subseteq ledger']_vars

\* C22: an invocation writes the ledger at most once; when it has written,
\* every row of the batch has been processed; the next batch is only
\* triggered after the write.
C22_OneWriteAfterTheRows ==
    /\ calls.ledger_write <= 1
    /\ calls.ledger_write = 1 =>
          (pc \in {"trigger", "done"} /\ rowpos = Len(batch_data))
    /\ pc \in {"rows", "items", "raised"} => calls.ledger_write = 0
    /\ pc = "trigger" => triggered = << >>

\* a batch of two rows, both searched, both URLs notified, the ledger written
\* once
C22_Witness ==
    /\ pc = "done"
    /\ calls.ledger_write = 1
    /\ notified_ok = URLs
    /\ calls.search = 2

\* C23: in the variant with global exclusions, an invocation of a batch >= 1
\* works with the global exclusion list that batch 0 of the same run worked
\* with.
C23_LaterBatchesUseBatchZeroList ==
    (variant = 1 /\ current_batch >= 1 /\ pc \notin {"idle", "load_exclusions"}) =>
        Range(global_excluded_shops) = Range(run_exclusions)

\* C24: an invocation that could not have the global exclusion list (source
\* unconfigured or failing at batch 0, cache unreadable at a later batch) goes
\* on with an empty global list, looks the shops up in the row's own list,
\* and returns 500 only for a failed configuration load or a failed
\* next-batch invocation.
C24_ExclusionFailureIsNotFatal ==
    calls.exclusions_failed = 1 =>
        /\ global_excluded_shops = << >>
        /\ pc = "items" =>
              LET row == batch_data[rowpos + 1].row
              IN  all_excluded_shops(variant, global_excluded_shops, row)
                      = Range(excluded_shops(row))
        /\ status = 500 =>
              \/ calls.config_load = 1 /\ calls.config_loaded = 0
              \/ triggered # << >> /\ pending = NoBatch

\* after the failure a hit was skipped for a shop of the row's own list
C24_Witness ==
    /\ calls.exclusions_failed = 1
    /\ pc = "items"
    /\ last.outcome = "ExcludedShop"

\* max(1, ceil(M/B)) for the M rows of the variant's partition
ExpectedInvocations ==
    LET n == CeilDiv(Cardinality(OwnRows), batch_size)
    IN  IF n = 0 THEN 1 ELSE n

\* C25: the invocations of a run have the batch indices 0, 1, 2, ... in this
\* order; a run started ends; when it has ended with every invocation
\* returning 200 it has made exactly max(1, ceil(M/B)) invocations, and after
\* the last of them no invocation is in flight.
C25_ChainTerminates ==
    /\ [](chain = [k \in 1 .. Len(chain) |-> k - 1])
    /\ []((ChainOver /\ runs = 1 /\ status = 200) =>
              Len(chain) = ExpectedInvocations)
    /\ []((Ended /\ status = 200 /\ Len(chain) = ExpectedInvocations) =>
              pending = NoBatch)
    /\ (runs = 1 ~> ChainOver)

\* a run of two invocations has ended, both returned 200
C25_Witness ==
    /\ ChainOver
    /\ status = 200
    /\ chain = << 0, 1 >>

\* C26: when two invocations that loaded the ledger before either persisted
\* have both finished, the persisted ledger holds every URL either of them
\* notified.
C26_OverlapLosesNothing ==
    (\A i \in Invocations : overlap[i].pc = "done") =>
        (\A i \in Invocations : overlap[i].notified \subseteq ledger)

\* the fixed delay between two requests to the search API
InterCallDelay == 1

\* C27: between two consecutive requests to the search API, inside one search
\* call or from the call of one row to the call of the next, at least the
\* fixed delay is slept, whatever the answer to the first of the two.
C27_SearchRequestsAreSpaced ==
    (Called("search") \/ Called("searches")) =>
        \A k \in 1 .. (Requests(verdict.events) - 1) :
            WaitAfter(verdict.events, k) >= InterCallDelay

\* C28: a URL notified with success is in notified_set for the rest of the
\* invocation, and a later hit of the same invocation with that URL, in the
\* same row or in a later one, is not notified again.
C28_NotifiedOnceInAnInvocation ==
    /\ notified_ok \subseteq notified_set
    /\ last.in_ok => last.outcome \notin Sent

C28_Witness ==
    /\ last.in_ok
    /\ last.outcome = "AlreadyNotified"
    /\ ~last.in_loaded
    /\ calls.search = 2

====
